---- MODULE Spec2Model ----
(***************************************************************************)
(* femtoclaw-policy: the capability registry (capability.rs), the policy   *)
(* engine (policy.rs) and the capability gate (gate.rs).                   *)
(*                                                                         *)
(* Three specifications:                                                   *)
(*   Spec        a CapabilityGate, from CapabilityGate::new(), driven by   *)
(*               register / enable / disable / add_policy / with_engine /  *)
(*               with_registry / authorize;                                *)
(*   SpecEngine  a stand-alone PolicyEngine, from PolicyEngine::new(),     *)
(*               driven by with_default_effect / add_policy / evaluate;    *)
(*   SpecLoad    a stand-alone PolicyEngine, driven by with_default_effect *)
(*               load_from_json / evaluate.                                *)
(***************************************************************************)
EXTENDS Integers, Sequences, FiniteSets, TLC

VARIABLES
    capabilities,    \* CapabilityRegistry.capabilities : HashMap<String, Capability>
    policies,        \* PolicyEngine.policies : HashMap<String, Policy>
    default_effect,  \* PolicyEngine.default_effect
    order,           \* the order in which policies.values() iterates the map
    registered,      \* history: every name ever passed to register on the registry
    ret              \* the last call: its operation, its argument, what it returned

vars == <<capabilities, policies, default_effect, order, registered, ret>>

----------------------------------------------------------------------------
(* Bounds and input sets *)

MaxRules == 2
MaxDoc == 2

CapNames == {"fs.read", "shell"}
Tools == CapNames \cup {"network", "unknown"}
Resources == {"fs.read", "shell", "*"}
ResourceInputs == {"fs.read", "shell", "network"}
PolicyNames == {"default", "extra"}
Actions == {"execute", "read"}
ArgsInputs == {"{}", "{path:/etc}"}

SeqsUpTo(S, n) == UNION {[1..k -> S] : k \in 0..n}

RECURSIVE Perms(_)
Perms(S) ==
    IF S = {} THEN {<<>>}
    ELSE UNION {{<<x>> \o p : p \in Perms(S \ {x})} : x \in S}

----------------------------------------------------------------------------
(* policy.rs: data *)

Effect == {"Allow", "Deny"}

Effect_default == "Deny"

Condition == [key |-> "path", operator |-> "eq", value |-> "/etc"]

Rule_allow(resource) ==
    [effect |-> "Allow", principal |-> "*", resource |-> resource,
     action |-> "execute", conditions |-> <<>>]

\* Mutant: deny copied from allow, the effect left as it was.
Rule_deny_as_allow(resource) ==
    [effect |-> "Allow", principal |-> "*", resource |-> resource,
     action |-> "execute", conditions |-> <<>>]

Rule_deny(resource) ==
    [effect |-> "Deny", principal |-> "*", resource |-> resource,
     action |-> "execute", conditions |-> <<>>]

with_conditions(rule, conditions) == [rule EXCEPT !.conditions = conditions]

Policy_new(name, version) == [name |-> name, version |-> version, rules |-> <<>>]

with_rule(policy, rule) == [policy EXCEPT !.rules = Append(@, rule)]

----------------------------------------------------------------------------
(* capability.rs *)

Capability_new(name, description) ==
    [name |-> name, description |-> description, enabled |-> TRUE,
     parameters |-> <<>>]

Capability_disable(cap) == [cap EXCEPT !.enabled = FALSE]

Capability_enable(cap) == [cap EXCEPT !.enabled = TRUE]

CapabilityRegistry_new == <<>>

\* HashMap::insert: adds the key or overwrites its value.
register(caps, capability) ==
    [n \in DOMAIN caps \cup {capability.name} |->
        IF n = capability.name THEN capability ELSE caps[n]]

is_registered(caps, name) == name \in DOMAIN caps

is_enabled(caps, name) ==
    IF name \in DOMAIN caps THEN caps[name].enabled ELSE FALSE

\* Mutant: get_mut replaced by an entry().or_insert: an unknown name is created.
enable_upsert(caps, name) ==
    <<register(caps, IF name \in DOMAIN caps THEN Capability_enable(caps[name])
                     ELSE Capability_new(name, "")), TRUE>>

\* Mutant: an unknown name is created, disabled.
disable_upsert(caps, name) ==
    <<register(caps, IF name \in DOMAIN caps THEN Capability_disable(caps[name])
                     ELSE Capability_disable(Capability_new(name, ""))), TRUE>>

\* Mutant: the flag of every capability is cleared, not only that of `name`.
disable_all(caps, name) ==
    IF name \in DOMAIN caps
    THEN <<[n \in DOMAIN caps |-> Capability_disable(caps[n])], TRUE>>
    ELSE <<caps, FALSE>>

\* <<registry afterwards, returned bool>>
enable(caps, name) ==
    IF name \in DOMAIN caps
    THEN <<[caps EXCEPT ![name] = Capability_enable(@)], TRUE>>
    ELSE <<caps, FALSE>>

disable(caps, name) ==
    IF name \in DOMAIN caps
    THEN <<[caps EXCEPT ![name] = Capability_disable(@)], TRUE>>
    ELSE <<caps, FALSE>>

----------------------------------------------------------------------------
(* policy.rs: PolicyEngine *)

PolicyEngine_new == [policies |-> <<>>, default_effect |-> Effect_default]

with_default_effect(engine, effect) == [engine EXCEPT !.default_effect = effect]

add_policy(pols, policy) ==
    [n \in DOMAIN pols \cup {policy.name} |->
        IF n = policy.name THEN policy ELSE pols[n]]

\* Mutant: the wildcard is forgotten.
rule_matches_exact(rule, resource) == rule.resource = resource

rule_matches(rule, resource) == rule.resource = resource \/ rule.resource = "*"

\* Mutant: the loop does not return at the first match, the last match stands.
RECURSIVE scan_rules_last_match(_, _)
scan_rules_last_match(rules, resource) ==
    IF rules = <<>> THEN "None"
    ELSE LET rest == scan_rules_last_match(Tail(rules), resource)
         IN IF rest # "None" THEN rest
            ELSE IF rule_matches(Head(rules), resource) THEN Head(rules).effect
            ELSE "None"

\* The inner loop of evaluate: the effect of the first matching rule, or "None".
RECURSIVE scan_rules(_, _)
scan_rules(rules, resource) ==
    IF rules = <<>> THEN "None"
    ELSE IF rule_matches(Head(rules), resource) THEN Head(rules).effect
    ELSE scan_rules(Tail(rules), resource)

\* The outer loop of evaluate over policies.values(), which yields them in `ord`.
RECURSIVE scan_policies(_, _, _)
scan_policies(pols, ord, resource) ==
    IF ord = <<>> THEN "None"
    ELSE LET e == scan_rules(pols[Head(ord)].rules, resource)
         IN IF e # "None" THEN e ELSE scan_policies(pols, Tail(ord), resource)

\* Mutant: no match falls through to Allow, not to default_effect.
evaluate_allow_fallback(engine, ord, resource, action, args) ==
    LET e == scan_policies(engine.policies, ord, resource)
    IN IF e # "None" THEN e ELSE "Allow"

\* Mutant: a rule matches only when its action is the requested one too.
RECURSIVE scan_rules_action(_, _, _)
scan_rules_action(rules, resource, action) ==
    IF rules = <<>> THEN "None"
    ELSE IF rule_matches(Head(rules), resource) /\ Head(rules).action = action
         THEN Head(rules).effect
    ELSE scan_rules_action(Tail(rules), resource, action)

RECURSIVE scan_policies_action(_, _, _, _)
scan_policies_action(pols, ord, resource, action) ==
    IF ord = <<>> THEN "None"
    ELSE LET e == scan_rules_action(pols[Head(ord)].rules, resource, action)
         IN IF e # "None" THEN e
            ELSE scan_policies_action(pols, Tail(ord), resource, action)

evaluate_checks_action(engine, ord, resource, action, args) ==
    LET e == scan_policies_action(engine.policies, ord, resource, action)
    IN IF e # "None" THEN e ELSE engine.default_effect

evaluate(engine, ord, resource, action, args) ==
    LET e == scan_policies(engine.policies, ord, resource)
    IN IF e # "None" THEN e ELSE engine.default_effect

----------------------------------------------------------------------------
(* gate.rs *)

Decision ==
    {"Authorized", "DeniedCapabilityNotFound", "DeniedCapabilityDisabled",
     "DeniedPolicyViolation"}

\* Mutant: the policy is consulted before the enabled flag.
authorize_policy_first(caps, engine, ord, tool, args) ==
    IF ~is_registered(caps, tool) THEN "DeniedCapabilityNotFound"
    ELSE IF evaluate(engine, ord, tool, "execute", args) = "Allow"
         THEN "Authorized"
    ELSE IF ~is_enabled(caps, tool) THEN "DeniedCapabilityDisabled"
    ELSE "DeniedPolicyViolation"

authorize(caps, engine, ord, tool, args) ==
    IF ~is_registered(caps, tool) THEN "DeniedCapabilityNotFound"
    ELSE IF ~is_enabled(caps, tool) THEN "DeniedCapabilityDisabled"
    ELSE IF evaluate(engine, ord, tool, "execute", args) = "Allow"
         THEN "Authorized"
         ELSE "DeniedPolicyViolation"

is_allowed(decision) == decision = "Authorized"

check(caps, engine, ord, tool) == is_allowed(authorize(caps, engine, ord, tool, "{}"))

----------------------------------------------------------------------------
(* policy.rs: load_from_json.  A document is a JSON array; an element is a  *)
(* JSON object, here a record whose fields are the object's keys and whose *)
(* "effect" values are JSON strings.                                        *)

RuleFields == {"effect", "principal", "resource", "action", "conditions"}
PolicyFields == {"name", "version", "rules"}

\* serde's derived Deserialize for Rule: every field present, effect a variant name.
rule_from_json(obj) ==
    IF RuleFields \subseteq DOMAIN obj /\ obj.effect \in Effect
    THEN [ok |-> TRUE,
          value |-> [effect |-> obj.effect, principal |-> obj.principal,
                     resource |-> obj.resource, action |-> obj.action,
                     conditions |-> obj.conditions]]
    ELSE [ok |-> FALSE]

\* serde's derived Deserialize for Policy: every field present (unknown keys are
\* skipped), every rule well-formed.
policy_from_json(obj) ==
    IF PolicyFields \subseteq DOMAIN obj
    THEN LET rules == [i \in DOMAIN obj.rules |-> rule_from_json(obj.rules[i])]
         IN IF \A i \in DOMAIN rules : rules[i].ok
            THEN [ok |-> TRUE,
                  value |-> [name |-> obj.name, version |-> obj.version,
                             rules |-> [i \in DOMAIN rules |-> rules[i].value]]]
            ELSE [ok |-> FALSE]
    ELSE [ok |-> FALSE]

\* serde_json::from_str::<Vec<Policy>>: the whole array, or an error.
from_str(doc) ==
    LET parsed == [i \in DOMAIN doc |-> policy_from_json(doc[i])]
    IN IF \A i \in DOMAIN parsed : parsed[i].ok
       THEN [ok |-> TRUE, value |-> [i \in DOMAIN parsed |-> parsed[i].value]]
       ELSE [ok |-> FALSE]

\* for policy in policies { self.add_policy(policy) }
RECURSIVE add_all(_, _)
add_all(pols, parsed) ==
    IF parsed = <<>> THEN pols
    ELSE add_all(add_policy(pols, Head(parsed)), Tail(parsed))

\* Mutant: the records are added as they are read, up to the malformed one.
RECURSIVE load_streaming(_, _)
load_streaming(pols, doc) ==
    IF doc = <<>> THEN <<pols, "Ok">>
    ELSE IF policy_from_json(Head(doc)).ok
         THEN load_streaming(add_policy(pols, policy_from_json(Head(doc)).value),
                             Tail(doc))
    ELSE <<pols, "Err">>

\* <<policies afterwards, "Ok" or "Err">>
load_from_json(pols, doc) ==
    LET parsed == from_str(doc)
    IN IF parsed.ok THEN <<add_all(pols, parsed.value), "Ok">>
       ELSE <<pols, "Err">>

----------------------------------------------------------------------------
(* The state as the code's objects *)

engine == [policies |-> policies, default_effect |-> default_effect]

Ret(op, name, val) == [op |-> op, name |-> name, val |-> val]

RuleInputs ==
    UNION {{Rule_allow(r), Rule_deny(r)} : r \in Resources}

\* Rules as a struct literal or a JSON document can state them: another action,
\* a condition attached.
OddRuleInputs ==
    UNION {{[Rule_allow(r) EXCEPT !.action = "read"],
            [Rule_deny(r) EXCEPT !.action = "read"],
            with_conditions(Rule_allow(r), <<Condition>>),
            with_conditions(Rule_deny(r), <<Condition>>)} : r \in {"shell"}}

\* Policy::new(name, "1.0").with_rule(r1).with_rule(r2)...
RECURSIVE with_rules(_, _)
with_rules(policy, rules) ==
    IF rules = <<>> THEN policy
    ELSE with_rules(with_rule(policy, Head(rules)), Tail(rules))

Policy_of(name, rules) == with_rules(Policy_new(name, "1.0"), rules)

\* The gate is given one policy, "default", of up to MaxRules rules; the engine
\* on its own a policy "default" of up to MaxRules rules and a policy "extra" of
\* at most one rule, so that two policies can disagree.
PolicyInputs ==
    {Policy_of("default", rs) : rs \in SeqsUpTo(RuleInputs, MaxRules)}

EngineRuleInputs ==
    UNION {{Rule_allow(r), Rule_deny(r)} : r \in {"shell", "*"}}

EnginePolicyInputs ==
    {Policy_of("default", rs) : rs \in SeqsUpTo(EngineRuleInputs, MaxRules)}
        \cup {Policy_of("extra", rs) :
                 rs \in {<<>>} \cup {<<r>> : r \in RuleInputs \cup OddRuleInputs}}

CapabilityInputs ==
    UNION {{Capability_new(n, "d"), Capability_disable(Capability_new(n, "d"))} :
        n \in CapNames}

RegistryInputs ==
    {CapabilityRegistry_new}
        \cup {register(CapabilityRegistry_new, c) : c \in CapabilityInputs}

EngineInputs == {with_default_effect(PolicyEngine_new, e) : e \in Effect}

\* JSON objects of load documents, as the derived Serialize writes them: one key
\* per field, the effect as the name of its variant.
JsonRule(rule) ==
    [effect |-> IF rule.effect = "Allow" THEN "Allow" ELSE "Deny",
     principal |-> rule.principal, resource |-> rule.resource,
     action |-> rule.action, conditions |-> rule.conditions]
JsonPolicy(policy) ==
    [name |-> policy.name, version |-> policy.version,
     rules |-> [i \in DOMAIN policy.rules |-> JsonRule(policy.rules[i])]]

DocItems ==
    {JsonPolicy(Policy_of("default", <<Rule_allow("*")>>)),
     JsonPolicy(Policy_of("default", <<Rule_deny("shell"), Rule_allow("shell")>>)),
     JsonPolicy(Policy_of("extra",
         <<with_conditions(Rule_allow("fs.read"), <<Condition>>)>>)),
     \* an unknown key, which serde skips
     [name |-> "extra", version |-> "1.0", comment |-> "c",
      rules |-> <<JsonRule(Rule_deny("shell"))>>],
     \* an effect that is no variant of Effect
     [name |-> "default", version |-> "1.0",
      rules |-> <<[Rule_allow("*") EXCEPT !.effect = "Permit"]>>],
     \* no "rules" key
     [name |-> "extra", version |-> "1.0"]}

DocInputs == SeqsUpTo(DocItems, MaxDoc)

----------------------------------------------------------------------------
(* Spec: a CapabilityGate *)

Init ==
    /\ capabilities = CapabilityRegistry_new
    /\ policies = with_default_effect(PolicyEngine_new, "Deny").policies
    /\ default_effect = with_default_effect(PolicyEngine_new, "Deny").default_effect
    /\ order = <<>>
    /\ registered = {}
    /\ ret = Ret("new", "", "ok")

WithRegistry(registry) ==
    /\ capabilities' = registry
    /\ registered' = DOMAIN registry
    /\ ret' = Ret("with_registry", "", "ok")
    /\ UNCHANGED <<policies, default_effect, order>>

WithEngine(e) ==
    /\ policies' = e.policies
    /\ default_effect' = e.default_effect
    /\ order' \in Perms(DOMAIN e.policies)
    /\ ret' = Ret("with_engine", "", "ok")
    /\ UNCHANGED <<capabilities, registered>>

RegisterCapability(capability) ==
    /\ capabilities' = register(capabilities, capability)
    /\ registered' = registered \cup {capability.name}
    /\ ret' = Ret("register", capability.name, "ok")
    /\ UNCHANGED <<policies, default_effect, order>>

Enable(name) ==
    /\ capabilities' = enable(capabilities, name)[1]
    /\ ret' = Ret("enable", name, enable(capabilities, name)[2])
    /\ UNCHANGED <<policies, default_effect, order, registered>>

Disable(name) ==
    /\ capabilities' = disable(capabilities, name)[1]
    /\ ret' = Ret("disable", name, disable(capabilities, name)[2])
    /\ UNCHANGED <<policies, default_effect, order, registered>>

AddPolicy(policy) ==
    /\ policies' = add_policy(policies, policy)
    /\ order' \in Perms(DOMAIN policies')
    /\ ret' = Ret("add_policy", policy.name, "ok")
    /\ UNCHANGED <<capabilities, default_effect, registered>>

Authorize(tool, args) ==
    /\ ret' = Ret("authorize", tool, authorize(capabilities, engine, order, tool, args))
    /\ UNCHANGED <<capabilities, policies, default_effect, order, registered>>

Next ==
    \/ \E c \in CapabilityInputs : RegisterCapability(c)
    \/ \E n \in Tools : Enable(n)
    \/ \E n \in Tools : Disable(n)
    \/ \E p \in PolicyInputs : AddPolicy(p)
    \/ \E t \in Tools, a \in ArgsInputs : Authorize(t, a)
    \/ \E r \in RegistryInputs : WithRegistry(r)
    \/ \E e \in EngineInputs : WithEngine(e)

Spec == Init /\ [][Next]_vars

----------------------------------------------------------------------------
(* SpecEngine: a PolicyEngine on its own *)

InitEngine ==
    /\ capabilities = CapabilityRegistry_new
    /\ policies = PolicyEngine_new.policies
    /\ default_effect = PolicyEngine_new.default_effect
    /\ order = <<>>
    /\ registered = {}
    /\ ret = Ret("new", "", "ok")

WithDefaultEffect(effect) ==
    /\ default_effect' = with_default_effect(engine, effect).default_effect
    /\ ret' = Ret("with_default_effect", "", "ok")
    /\ UNCHANGED <<capabilities, policies, order, registered>>

LoadFromJson(doc) ==
    LET r == load_from_json(policies, doc)
    IN /\ policies' = r[1]
       /\ order' \in IF r[1] = policies THEN {order} ELSE Perms(DOMAIN r[1])
       /\ ret' = Ret("load_from_json", "", r[2])
       /\ UNCHANGED <<capabilities, default_effect, registered>>

Evaluate(resource, action, args) ==
    /\ ret' = Ret("evaluate", resource, evaluate(engine, order, resource, action, args))
    /\ UNCHANGED <<capabilities, policies, default_effect, order, registered>>

NextEngine ==
    \/ \E e \in Effect : WithDefaultEffect(e)
    \/ \E p \in EnginePolicyInputs : AddPolicy(p)
    \/ \E r \in ResourceInputs, a \in Actions, g \in ArgsInputs : Evaluate(r, a, g)

SpecEngine == InitEngine /\ [][NextEngine]_vars

----------------------------------------------------------------------------
(* SpecLoad: a PolicyEngine on its own, its policies loaded from documents *)

NextLoad ==
    \/ \E e \in Effect : WithDefaultEffect(e)
    \/ \E d \in DocInputs : LoadFromJson(d)
    \/ \E r \in ResourceInputs, a \in Actions, g \in ArgsInputs : Evaluate(r, a, g)

SpecLoad == InitEngine /\ [][NextLoad]_vars

----------------------------------------------------------------------------
(* Properties of the gate, under Spec *)

Decide(tool, args) == authorize(capabilities, engine, order, tool, args)

Usable(n) == n \in DOMAIN capabilities /\ capabilities[n].enabled

\* No rule of any policy names n or the wildcard.
NoRuleMatches(n) ==
    \A p \in DOMAIN policies : \A i \in DOMAIN policies[p].rules :
        policies[p].rules[i].resource \notin {n, "*"}

SomeRule(resource, effect) ==
    \E p \in DOMAIN policies : \E i \in DOMAIN policies[p].rules :
        /\ policies[p].rules[i].resource = resource
        /\ policies[p].rules[i].effect = effect

TypeOK ==
    /\ DOMAIN capabilities \subseteq CapNames
    /\ \A n \in DOMAIN capabilities : capabilities[n].name = n
    /\ DOMAIN policies \subseteq PolicyNames
    /\ \A n \in DOMAIN policies : policies[n].name = n
    /\ default_effect \in Effect
    /\ order \in Perms(DOMAIN policies)

\* C1 as claimed: in every gate, a registered and enabled capability that no rule
\* of any policy matches (by name or by "*") gets DeniedPolicyViolation.
C1_DefaultDeny_AsClaimed ==
    \A n \in Tools, a \in ArgsInputs :
        (Usable(n) /\ NoRuleMatches(n)) => Decide(n, a) = "DeniedPolicyViolation"

\* C1 amended: in every gate whose engine has default_effect Deny, a registered
\* and enabled capability that no rule of any policy matches (by name or by "*"),
\* also when there is no policy at all, gets DeniedPolicyViolation, never
\* Authorized; the last authorize call returned just that.
C1_DefaultDeny ==
    default_effect = "Deny" =>
        /\ \A n \in Tools, a \in ArgsInputs :
              (Usable(n) /\ NoRuleMatches(n))
                  => Decide(n, a) = "DeniedPolicyViolation"
        /\ (ret.op = "authorize" /\ Usable(ret.name) /\ NoRuleMatches(ret.name))
              => ret.val = "DeniedPolicyViolation"

C1_Witness ==
    /\ default_effect = "Deny"
    /\ ret = Ret("authorize", "fs.read", "DeniedPolicyViolation")
    /\ Usable("fs.read") /\ NoRuleMatches("fs.read")
    /\ SomeRule("shell", "Allow")

\* C2: a name never passed to register gets DeniedCapabilityNotFound from
\* authorize, for every args and whatever the policies and the default effect are.
C2_NeverRegisteredNotFound ==
    /\ \A n \in Tools, a \in ArgsInputs :
          n \notin registered => Decide(n, a) = "DeniedCapabilityNotFound"
    /\ (ret.op = "authorize" /\ ret.name \notin registered)
          => ret.val = "DeniedCapabilityNotFound"

C2_Witness ==
    /\ ret = Ret("authorize", "shell", "DeniedCapabilityNotFound")
    /\ "shell" \notin registered /\ Usable("fs.read")
    /\ default_effect = "Allow"
    /\ SomeRule("*", "Allow")

\* C3: a registered capability whose enabled flag is false gets
\* DeniedCapabilityDisabled from authorize, whatever rule names it or "*".
C3_DisabledBeforePolicy ==
    /\ \A n \in Tools, a \in ArgsInputs :
          (n \in DOMAIN capabilities /\ ~capabilities[n].enabled)
              => Decide(n, a) = "DeniedCapabilityDisabled"
    /\ (ret.op = "authorize" /\ ret.name \in DOMAIN capabilities
            /\ ~capabilities[ret.name].enabled)
          => ret.val = "DeniedCapabilityDisabled"

C3_Witness ==
    /\ ret = Ret("authorize", "shell", "DeniedCapabilityDisabled")
    /\ "shell" \in DOMAIN capabilities /\ ~capabilities["shell"].enabled
    /\ DOMAIN policies = {"default"}
    /\ policies["default"].rules = <<Rule_allow("shell"), Rule_allow("*")>>

\* The scenario: a new gate, fs.read and shell registered and enabled, one policy
\* with the rules allow(fs.read), deny(shell).
ScenarioState ==
    /\ DOMAIN capabilities = {"fs.read", "shell"}
    /\ capabilities["fs.read"].enabled /\ capabilities["shell"].enabled
    /\ DOMAIN policies = {"default"}
    /\ policies["default"].rules = <<Rule_allow("fs.read"), Rule_deny("shell")>>
    /\ default_effect = "Deny"

\* C5 as claimed: in the scenario authorize gives Authorized for fs.read,
\* DeniedPolicyViolation for shell and for network, DeniedCapabilityNotFound for
\* unknown.
C5_Scenario_AsClaimed ==
    ScenarioState =>
        \A a \in ArgsInputs :
            /\ Decide("fs.read", a) = "Authorized"
            /\ Decide("shell", a) = "DeniedPolicyViolation"
            /\ Decide("network", a) = "DeniedPolicyViolation"
            /\ Decide("unknown", a) = "DeniedCapabilityNotFound"

\* C5 amended: in the scenario authorize gives Authorized for fs.read,
\* DeniedPolicyViolation for shell, and DeniedCapabilityNotFound for network
\* (which is not registered) as for unknown.
C5_Scenario ==
    ScenarioState =>
        /\ \A a \in ArgsInputs :
              /\ Decide("fs.read", a) = "Authorized"
              /\ Decide("shell", a) = "DeniedPolicyViolation"
              /\ Decide("network", a) = "DeniedCapabilityNotFound"
              /\ Decide("unknown", a) = "DeniedCapabilityNotFound"
        /\ ret.op = "authorize" =>
              ret.val = CASE ret.name = "fs.read" -> "Authorized"
                          [] ret.name = "shell" -> "DeniedPolicyViolation"
                          [] OTHER -> "DeniedCapabilityNotFound"

C5_Witness ==
    /\ ScenarioState
    /\ ret = Ret("authorize", "network", "DeniedCapabilityNotFound")

\* C7: disabling a registered capability n makes authorize(n) answer
\* DeniedCapabilityDisabled and leaves authorize(m) as it was for every other
\* name m, and the registered names and the policies as they were.
C7_DisableFrame ==
    [][(ret'.op = "disable" /\ ret'.name \in DOMAIN capabilities) =>
          /\ \A a \in ArgsInputs :
                authorize(capabilities', [policies |-> policies',
                                          default_effect |-> default_effect'],
                          order', ret'.name, a) = "DeniedCapabilityDisabled"
          /\ \A m \in Tools \ {ret'.name}, a \in ArgsInputs :
                authorize(capabilities', [policies |-> policies',
                                          default_effect |-> default_effect'],
                          order', m, a) = Decide(m, a)
          /\ DOMAIN capabilities' = DOMAIN capabilities
          /\ policies' = policies /\ default_effect' = default_effect
          /\ order' = order]_vars

C7_Witness ==
    /\ ret = Ret("disable", "fs.read", TRUE)
    /\ DOMAIN capabilities = {"fs.read", "shell"}
    /\ ~capabilities["fs.read"].enabled /\ capabilities["shell"].enabled
    /\ DOMAIN policies = {"default"}
    /\ policies["default"].rules = <<Rule_allow("fs.read"), Rule_allow("shell")>>
    /\ Decide("shell", "{}") = "Authorized"
    /\ Decide("fs.read", "{}") = "DeniedCapabilityDisabled"

\* C8: enable and disable return true exactly when the name is registered at the
\* call; for an unregistered name they return false and leave the registry as it
\* was: the name is still not registered, not enabled, and authorize still
\* answers DeniedCapabilityNotFound for it.
C8_EnableDisableUnknown ==
    [][ret'.op \in {"enable", "disable"} =>
          /\ ret'.val = (ret'.name \in DOMAIN capabilities)
          /\ ret'.name \notin DOMAIN capabilities =>
                /\ capabilities' = capabilities
                /\ ~is_registered(capabilities', ret'.name)
                /\ ~is_enabled(capabilities', ret'.name)
                /\ \A a \in ArgsInputs :
                      authorize(capabilities', [policies |-> policies',
                                                default_effect |-> default_effect'],
                                order', ret'.name, a) = "DeniedCapabilityNotFound"]_vars

C8_Witness ==
    /\ ret = Ret("disable", "shell", FALSE)
    /\ DOMAIN capabilities = {"fs.read"}
    /\ ~is_registered(capabilities, "shell") /\ ~is_enabled(capabilities, "shell")

----------------------------------------------------------------------------
(* Properties of the engine, under SpecEngine (C4, C9, C10) and SpecLoad (C6) *)

\* The rule matches the resource: by its name or by the wildcard.
Matches(rule, r) == rule.resource = r \/ rule.resource = "*"

HasMatch(rules, r) == \E i \in DOMAIN rules : Matches(rules[i], r)

\* The lowest index of a rule that matches r.
FirstMatch(rules, r) ==
    CHOOSE i \in DOMAIN rules :
        Matches(rules[i], r) /\ \A j \in 1..(i - 1) : ~Matches(rules[j], r)

Evaluated(r, action, args) == evaluate(engine, order, r, action, args)

\* C4: with a single policy in the engine, evaluate returns the effect of the
\* lowest-index rule whose resource is r or "*": deny(x), allow(x) gives Deny for
\* x, and deny(shell), allow("*") gives Deny for shell.
C4_FirstMatchWins ==
    \A p \in PolicyNames :
        DOMAIN policies = {p} =>
            LET rules == policies[p].rules
            IN /\ \A r \in ResourceInputs, a \in Actions, g \in ArgsInputs :
                     HasMatch(rules, r)
                         => Evaluated(r, a, g) = rules[FirstMatch(rules, r)].effect
               /\ rules = <<Rule_deny("shell"), Rule_allow("shell")>>
                     => Evaluated("shell", "execute", "{}") = "Deny"
               /\ rules = <<Rule_deny("shell"), Rule_allow("*")>>
                     => Evaluated("shell", "execute", "{}") = "Deny"
               /\ (ret.op = "evaluate" /\ HasMatch(rules, ret.name))
                     => ret.val = rules[FirstMatch(rules, ret.name)].effect

C4_Witness ==
    /\ DOMAIN policies = {"default"}
    /\ policies["default"].rules = <<Rule_deny("shell"), Rule_allow("*")>>
    /\ ret = Ret("evaluate", "shell", "Deny")

\* C6: a load_from_json that returns an error leaves the policies and the default
\* effect as they were, and with them the result of evaluate for every resource.
C6_FailedLoadChangesNothing ==
    [][(ret'.op = "load_from_json" /\ ret'.val = "Err") =>
          /\ policies' = policies
          /\ default_effect' = default_effect
          /\ \A r \in ResourceInputs, a \in Actions, g \in ArgsInputs :
                evaluate([policies |-> policies', default_effect |-> default_effect'],
                         order', r, a, g) = Evaluated(r, a, g)]_vars

C6_Witness ==
    /\ ret = Ret("load_from_json", "", "Err")
    /\ DOMAIN policies = {"default"}
    /\ policies["default"].rules = <<Rule_deny("shell"), Rule_allow("shell")>>
    /\ default_effect = "Deny"

\* A registry in which r is registered and enabled.
RegistryWith(r) == register(CapabilityRegistry_new, Capability_new(r, "d"))

\* The rule with its action and its conditions replaced.
Reshaped(pols, p, i, action, conditions) ==
    [pols EXCEPT ![p].rules[i].action = action, ![p].rules[i].conditions = conditions]

\* C9: evaluate gives the same effect whatever the action and the arguments of
\* the call and whatever the action and the conditions of the rules; authorize
\* does not depend on args, and an Allow rule with another action or with
\* conditions, matched first, makes authorize answer Authorized.
C9_ActionArgsConditionsIgnored ==
    /\ \A r \in ResourceInputs, a1 \in Actions, a2 \in Actions,
          g1 \in ArgsInputs, g2 \in ArgsInputs :
          /\ Evaluated(r, a1, g1) = Evaluated(r, a2, g2)
          /\ authorize(RegistryWith(r), engine, order, r, g1)
                = authorize(RegistryWith(r), engine, order, r, g2)
    /\ \A caps \in RegistryInputs, t \in Tools, g1 \in ArgsInputs, g2 \in ArgsInputs :
          authorize(caps, engine, order, t, g1) = authorize(caps, engine, order, t, g2)
    /\ \A r \in ResourceInputs, a \in Actions, g \in ArgsInputs :
          \A p \in DOMAIN policies : \A i \in DOMAIN policies[p].rules :
              \A ra \in Actions, rc \in {<<>>, <<Condition>>} :
                  evaluate([policies |-> Reshaped(policies, p, i, ra, rc),
                            default_effect |-> default_effect], order, r, a, g)
                      = Evaluated(r, a, g)
    /\ \A r \in ResourceInputs, g \in ArgsInputs :
          (/\ order # <<>>
           /\ HasMatch(policies[order[1]].rules, r)
           /\ LET rule == policies[order[1]].rules[FirstMatch(policies[order[1]].rules, r)]
              IN /\ rule.effect = "Allow"
                 /\ (rule.action # "execute" \/ rule.conditions # <<>>))
              => authorize(RegistryWith(r), engine, order, r, g) = "Authorized"
    /\ ret.op = "evaluate" => ret.val = Evaluated(ret.name, "execute", "{}")

C9_Witness ==
    /\ order = <<"extra">>
    /\ policies["extra"].rules = <<[Rule_allow("shell") EXCEPT !.action = "read"]>>
    /\ default_effect = "Deny"
    /\ ret = Ret("evaluate", "shell", "Allow")

\* The effects of the first matching rules of the policies that have one.
FirstEffects(r) ==
    {policies[p].rules[FirstMatch(policies[p].rules, r)].effect :
        p \in {q \in DOMAIN policies : HasMatch(policies[q].rules, r)}}

\* What evaluate can return for r, over the orders of iteration of the map.
Outcomes(r) ==
    {evaluate(engine, o, r, "execute", "{}") : o \in Perms(DOMAIN policies)}

\* C10: evaluate(r) is the same for every order of iteration of the policy map
\* exactly when the first matching rules of the policies that have one carry the
\* same effect; it is then that effect, or default_effect when no policy has a
\* matching rule; both Allow and Deny are possible only when two policies' first
\* matching rules differ in effect.
C10_OrderOfPolicies ==
    /\ order \in Perms(DOMAIN policies)
    /\ \A r \in ResourceInputs :
          /\ Cardinality(Outcomes(r)) = 1 <=> Cardinality(FirstEffects(r)) <= 1
          /\ FirstEffects(r) = {} => Outcomes(r) = {default_effect}
          /\ \A e \in Effect : FirstEffects(r) = {e} => Outcomes(r) = {e}
          /\ Outcomes(r) = Effect <=> FirstEffects(r) = Effect
          /\ Evaluated(r, "execute", "{}") \in Outcomes(r)

C10_Witness ==
    /\ DOMAIN policies = {"default", "extra"}
    /\ policies["default"].rules = <<Rule_deny("shell"), Rule_allow("*")>>
    /\ policies["extra"].rules = <<Rule_allow("shell")>>
    /\ Outcomes("shell") = Effect
    /\ order = <<"extra", "default">>
    /\ ret = Ret("evaluate", "shell", "Allow")

====
